---- MODULE Spec2Model ----
(***************************************************************************)
(* A model of the document ingestion pipeline of src/pipeline.py: the      *)
(* object store sync (download_from_s3), the batch ingestor                *)
(* (ingest_document_batch) and the stage graph of                          *)
(* document_ingestion_pipeline.                                            *)
(***************************************************************************)
EXTENDS Integers, Sequences, FiniteSets, TLC

VARIABLES
    \* ---- ingest_document_batch ----
    files,          \* the Discovered File Set loaded from the input artifact
    batch_size,     \* the batch_size parameter
    ingestPc,       \* "idle" | "outer" | "inner" | "done" | "raised"
    i,              \* the outer loop variable of range(0, len(files), batch_size)
    batch,          \* files[i:i + batch_size]
    j,              \* position of the inner loop in batch (1-based)
    batch_results,  \* the list of Per-File Results
    successful,     \* counter
    failed,         \* counter
    summary,        \* the Ingestion Summary written to results.path, or NoSummary
    batches,        \* history: every batch formed, in order
    attempted,      \* history: every file path whose open() was called, in order
    posts,          \* history: every file path submitted by requests.post, in order
    outcomes        \* history: what the environment did for each attempted file

VARIABLES
    \* ---- download_from_s3 ----
    s3_prefix,        \* the s3_prefix parameter, a string as a sequence of characters
    pages,            \* what the store's paginator yields, page by page
    syncPc,           \* "idle" | "paging" | "objects" | "done" | "raised"
    pageIdx,          \* number of listing pages fetched so far
    objIdx,           \* position in page['Contents'] of the current page (1-based)
    downloaded_count, \* counter
    downloads,        \* history: every completed download_file call, in order
    disk              \* the local files that exist (full paths)

VARIABLES
    \* ---- document_ingestion_pipeline ----
    use_s3,           \* the use_s3 parameter
    failFast,         \* whether the engine stops scheduling once a task has failed
    discoverPc,       \* discover_documents: "idle" | "walking" | "done"
    verifyPc,         \* verify_ingestion: "idle" | "loaded" | "done" | "raised"
    file_extensions,  \* the file_extensions parameter, a list of strings
    verifyReport,     \* what verify_ingestion has printed of the database

    \* ---- the indexing service's database ----
    dbDocs            \* number of rows of the documents relation

VARIABLES
    \* ---- independent runs of ingest_document_batch on one collection ----
    runs,             \* the ingestor state of each run
    received          \* per file, the POSTs the collection endpoint has received

VARIABLES
    \* ---- test-minio-access.py ----
    minio             \* the state of one run of test_minio_access

ingestVars == <<files, batch_size, ingestPc, i, batch, j, batch_results,
                successful, failed, summary, batches, attempted, posts, outcomes>>

syncVars == <<s3_prefix, pages, syncPc, pageIdx, objIdx, downloaded_count,
              downloads, disk>>

pipeVars == <<use_s3, failFast, discoverPc, verifyPc, file_extensions,
              verifyReport>>

dbVars == <<dbDocs>>

concVars == <<runs, received>>

minioVars == <<minio>>

vars == <<ingestVars, syncVars, pipeVars, dbVars, concVars, minioVars>>

\* ------------------------------------------------------------------ bounds
MaxFiles == 3
MaxBatch == 3

NoSummary == [written |-> FALSE]

Min(a, b) == IF a < b THEN a ELSE b

\* A run that is not driven by the pipeline: the other stages stay idle.
NoReport == [reported |-> FALSE]

\* The file_extensions default of the pipeline.
FileExtensions ==
    <<<<".", "m", "d">>, <<".", "t", "x", "t">>, <<".", "h", "t", "m", "l">>>>

\* The diagnostic script is not running.
MinioIdle == minio = [pc |-> "idle"]

\* No independent runs.
ConcIdle == runs = <<>> /\ received = <<>>

PipeIdle ==
    /\ ConcIdle
    /\ MinioIdle
    /\ use_s3 = TRUE /\ failFast = FALSE
    /\ discoverPc = "idle" /\ verifyPc = "idle"
    /\ file_extensions = FileExtensions
    /\ verifyReport = NoReport
    /\ dbDocs = 0

\* The state of the ingestor before it has run.
IngestIdle ==
    /\ ingestPc = "idle"
    /\ i = 0 /\ batch = <<>> /\ j = 0
    /\ batch_results = <<>> /\ successful = 0 /\ failed = 0
    /\ summary = NoSummary
    /\ batches = <<>> /\ attempted = <<>> /\ posts = <<>> /\ outcomes = <<>>

\* ------------------------------------------------------ download_from_s3

\* Strings are sequences of characters.
StartsWith(s, p) == Len(p) <= Len(s) /\ SubSeq(s, 1, Len(p)) = p

\* s.endswith('/')
EndsWithSlash(s) == s # <<>> /\ s[Len(s)] = "/"

\* The keys of the bucket, in the store's (byte) order.
KeyDir == <<"k", "b", "/">>

KeyDoc == <<"k", "b", "/", "a", ".", "m", "d">>

KeySub == <<"k", "b", "/", "s", "/", "b", ".", "m", "d">>

KeyOther == <<"x", ".", "m", "d">>

AllKeys == <<KeyDir, KeyDoc, KeySub, KeyOther>>

\* The prefixes a run may be given: none, a folder, a folder without its
\* trailing separator, and a whole key.
Prefixes == {<<>>, <<"k", "b", "/">>, <<"k", "b">>, KeyDoc}

\* download_path / documents_path
DownloadPath == <<"/", "t">>

MaxPageSize == 2

RECURSIVE SelectKeys(_, _, _)
\* The keys of AllKeys from position n on that are in the bucket (a set of
\* positions) and start with the prefix: what list_objects_v2 enumerates.
SelectKeys(n, bucket, prefix) ==
    IF n > Len(AllKeys) THEN <<>>
    ELSE (IF n \in bucket /\ StartsWith(AllKeys[n], prefix)
          THEN <<AllKeys[n]>> ELSE <<>>) \o SelectKeys(n + 1, bucket, prefix)

RECURSIVE Chunks(_, _)
Chunks(s, n) ==
    IF s = <<>> THEN <<>>
    ELSE IF Len(s) <= n THEN <<[hasContents |-> TRUE, keys |-> s]>>
    ELSE <<[hasContents |-> TRUE, keys |-> SubSeq(s, 1, n)]>>
         \o Chunks(SubSeq(s, n + 1, Len(s)), n)

NoContentsPage == [hasContents |-> FALSE, keys |-> <<>>]

InsertAt(s, pos, x) == SubSeq(s, 1, pos - 1) \o <<x>> \o SubSeq(s, pos, Len(s))

\* The page sequences of a listing: its keys in pages of at most size keys;
\* a listing without keys is one page without Contents, and a store may
\* return a page without Contents anywhere.
Listings(bucket, prefix) ==
    LET keys == SelectKeys(1, bucket, prefix)
    IN  IF keys = <<>> THEN {<<NoContentsPage>>}
        ELSE UNION {
            LET chunks == Chunks(keys, size)
            IN  {chunks} \cup
                {InsertAt(chunks, pos, NoContentsPage) : pos \in 1..(Len(chunks) + 1)}
            : size \in 1..MaxPageSize}

\* s3_key[len(s3_prefix):] if s3_prefix else s3_key
RelativePath(key, prefix) ==
    IF prefix # <<>> THEN SubSeq(key, Len(prefix) + 1, Len(key)) ELSE key

\* os.path.join(a, b) of posixpath: an absolute b discards a.
OsPathJoin(a, b) ==
    IF b # <<>> /\ b[1] = "/" THEN b
    ELSE IF a = <<>> \/ EndsWithSlash(a) THEN a \o b
    ELSE a \o <<"/">> \o b

LocalFile(key, prefix) == OsPathJoin(DownloadPath, RelativePath(key, prefix))

\* download_file cannot write to a path that names a directory.
Writable(local_file) == ~EndsWithSlash(local_file)

\* if s3_key.endswith('/'): continue
IsMarker(key) == EndsWithSlash(key)

\* Where the stage goes on a page without 'Contents': continue.
NoContentsStops == "done"

NoContentsPc == "paging"

SyncIdle ==
    /\ syncPc = "idle"
    /\ pageIdx = 0 /\ objIdx = 0
    /\ downloaded_count = 0
    /\ downloads = <<>>

\* Lines 41-57: create the client and the directory, downloaded_count = 0.
SyncBegin ==
    /\ syncPc = "idle"
    /\ syncPc' = "paging"
    /\ downloaded_count' = 0
    /\ UNCHANGED <<s3_prefix, pages, pageIdx, objIdx, downloads, disk>>
    /\ UNCHANGED <<ingestVars, pipeVars, dbVars, concVars, minioVars>>

\* Lines 59-61: the paginator yields the next page.
SyncFetchPage ==
    /\ syncPc = "paging"
    /\ pageIdx < Len(pages)
    /\ pageIdx' = pageIdx + 1
    /\ IF pages[pageIdx'].hasContents
       THEN syncPc' = "objects" /\ objIdx' = 1
       ELSE syncPc' = NoContentsPc /\ objIdx' = objIdx
    /\ UNCHANGED <<s3_prefix, pages, downloaded_count, downloads, disk>>
    /\ UNCHANGED <<ingestVars, pipeVars, dbVars, concVars, minioVars>>

\* Line 59: fetching a listing page raises (transport, authentication).
SyncFetchFails ==
    /\ syncPc = "paging"
    /\ pageIdx < Len(pages)
    /\ syncPc' = "raised"
    /\ UNCHANGED <<s3_prefix, pages, pageIdx, objIdx, downloaded_count,
                   downloads, disk>>
    /\ UNCHANGED <<ingestVars, pipeVars, dbVars, concVars, minioVars>>

AfterObject ==
    IF objIdx = Len(pages[pageIdx].keys) THEN "paging" ELSE "objects"

\* Lines 63-68: an object that is a directory marker is skipped.
SyncSkipMarker ==
    /\ syncPc = "objects"
    /\ IsMarker(pages[pageIdx].keys[objIdx])
    /\ objIdx' = objIdx + 1
    /\ syncPc' = AfterObject
    /\ UNCHANGED <<s3_prefix, pages, pageIdx, downloaded_count, downloads, disk>>
    /\ UNCHANGED <<ingestVars, pipeVars, dbVars, concVars, minioVars>>

\* Lines 63-80: an object is downloaded to its local file.
SyncDownload ==
    /\ syncPc = "objects"
    /\ LET key == pages[pageIdx].keys[objIdx]
           local_file == LocalFile(key, s3_prefix)
       IN  /\ ~IsMarker(key)
           /\ Writable(local_file)
           /\ downloads' = Append(downloads,
                                  [key |-> key, local_file |-> local_file])
           /\ disk' = disk \cup {local_file}
    /\ downloaded_count' = downloaded_count + 1
    /\ objIdx' = objIdx + 1
    /\ syncPc' = AfterObject
    /\ UNCHANGED <<s3_prefix, pages, pageIdx>>
    /\ UNCHANGED <<ingestVars, pipeVars, dbVars, concVars, minioVars>>

\* Line 79: download_file raises (transport, authentication, local write).
SyncDownloadFails ==
    /\ syncPc = "objects"
    /\ ~IsMarker(pages[pageIdx].keys[objIdx])
    /\ syncPc' = "raised"
    /\ UNCHANGED <<s3_prefix, pages, pageIdx, objIdx, downloaded_count,
                   downloads, disk>>
    /\ UNCHANGED <<ingestVars, pipeVars, dbVars, concVars, minioVars>>

\* Line 82: the paginator is exhausted.
SyncFinish ==
    /\ syncPc = "paging"
    /\ pageIdx = Len(pages)
    /\ syncPc' = "done"
    /\ UNCHANGED <<s3_prefix, pages, pageIdx, objIdx, downloaded_count,
                   downloads, disk>>
    /\ UNCHANGED <<ingestVars, pipeVars, dbVars, concVars, minioVars>>

\* The Sync stage alone, over every bucket content, prefix and paging.
InitSync ==
    /\ s3_prefix \in Prefixes
    /\ \E bucket \in SUBSET (1..Len(AllKeys)) : pages \in Listings(bucket, s3_prefix)
    /\ disk = {}
    /\ SyncIdle
    /\ files = <<>> /\ batch_size = 1
    /\ IngestIdle
    /\ PipeIdle

NextSync ==
    \/ SyncBegin
    \/ SyncFetchPage
    \/ SyncFetchFails
    \/ SyncSkipMarker
    \/ SyncDownload
    \/ SyncDownloadFails
    \/ SyncFinish

SpecSync == InitSync /\ [][NextSync]_vars

\* ------------------------------------------------- ingest_document_batch

\* The k-th path of a discovered-file list (paths are distinct).
FilePath(k) == <<"docs", k>>

FileLists == {[k \in 1..n |-> FilePath(k)] : n \in 0..MaxFiles}

\* What the environment does for one file: the local read, the POST, the
\* HTTP status and the response body.
SuccessStatuses == {200, 201}

ErrorStatuses == {404, 500}

Outcomes ==
    {[read |-> r, post |-> "na", status |-> 0, body |-> "na"] :
        r \in {"oserror", "decode"}}
    \cup {[read |-> "ok", post |-> p, status |-> 0, body |-> "na"] :
        p \in {"connection", "timeout"}}
    \cup {[read |-> "ok", post |-> "response", status |-> s, body |-> b] :
        s \in SuccessStatuses, b \in {"id", "noid", "nonjson", "nonobject"}}
    \cup {[read |-> "ok", post |-> "response", status |-> s, body |-> "text"] :
        s \in ErrorStatuses}

\* open(...)/f.read() raises (missing file, permission, UTF-8 decode error).
ReadRaises(o) == o.read # "ok"

\* requests.post is reached only after the read has returned.
SubmitsAlways(o) == TRUE

Submits(o) == ~ReadRaises(o)

\* requests.post raises (connection error, timeout).
PostRaises(o) == Submits(o) /\ o.post # "response"

\* response.status_code in [200, 201]
IsSuccessStatus(s) == s \in {200, 201}

\* The service answers 200/201 when it has created the document.
Stored(o) == Submits(o) /\ o.post = "response" /\ IsSuccessStatus(o.status)

\* response.json() raises on a body that is not JSON; result.get raises on a
\* JSON value that is not an object.
BodyRaises(o) == o.body \in {"nonjson", "nonobject"}

\* The sentinel 'unknown'; a document id is a pair, like the ids the service
\* assigns.
Unknown == <<"unknown", <<>>>>

\* result.get('document_id', 'unknown')
DocId(o, path) == IF o.body = "id" THEN <<"id", path>> ELSE Unknown

ErrorText(o) ==
    IF ReadRaises(o) THEN o.read
    ELSE IF PostRaises(o) THEN o.post
    ELSE "json"

HttpError(s) == IF s = 404 THEN "HTTP 404" ELSE "HTTP 500"

\* The three places that append a Per-File Result and count it; acc is
\* [results, successful, failed].
OnSuccessNoCount(acc, path, doc_id) ==
    [acc EXCEPT !.results = Append(@,
        [file |-> path, success |-> TRUE, document_id |-> doc_id])]

OnSuccess(acc, path, doc_id) ==
    [results |-> Append(acc.results,
        [file |-> path, success |-> TRUE, document_id |-> doc_id]),
     successful |-> acc.successful + 1,
     failed |-> acc.failed]

OnHttpErrorNoAppend(acc, path, status) ==
    [acc EXCEPT !.failed = @ + 1]

OnHttpError(acc, path, status) ==
    [results |-> Append(acc.results,
        [file |-> path, success |-> FALSE, error |-> HttpError(status)]),
     successful |-> acc.successful,
     failed |-> acc.failed + 1]

OnException(acc, path, err) ==
    [results |-> Append(acc.results,
        [file |-> path, success |-> FALSE, error |-> err]),
     successful |-> acc.successful,
     failed |-> acc.failed + 1]

\* The body of the inner loop for one file.
ProcessFile(acc, path, o) ==
    IF ReadRaises(o) \/ PostRaises(o) THEN OnException(acc, path, ErrorText(o))
    ELSE IF IsSuccessStatus(o.status)
         THEN IF BodyRaises(o)
              THEN OnException(acc, path, ErrorText(o))
              ELSE OnSuccess(acc, path, DocId(o, path))
         ELSE OnHttpError(acc, path, o.status)

\* Where the stage goes after the except handler has run: the handler is
\* inside the inner loop, so the loop goes on.
AfterHandlerAbort == "raised"

AfterHandler == "inner"

HandlerRan(o) ==
    ReadRaises(o) \/ PostRaises(o) \/ (IsSuccessStatus(o.status) /\ BodyRaises(o))

\* range(0, stop, step) still has the value v to yield.
RangeHas(v, stop, step) ==
    IF step > 0 THEN v < stop ELSE v > stop

\* s[lo:hi] of Python for 0 <= lo <= hi (0-based, hi exclusive, clipped).
SliceShort(s, lo, hi) == SubSeq(s, lo + 1, Min(hi, Len(s)) - 1)

Slice(s, lo, hi) == SubSeq(s, lo + 1, Min(hi, Len(s)))

\* The step of the outer loop.
RangeStep(v, step) == v + step

\* Lines 129-137: load the files, initialise the accumulators, enter the loop.
IngestBegin ==
    /\ ingestPc = "idle"
    /\ batch_size # 0
    /\ ingestPc' = "outer"
    /\ i' = 0
    /\ batch_results' = <<>>
    /\ successful' = 0
    /\ failed' = 0
    /\ UNCHANGED <<files, batch_size, batch, j, summary, batches, attempted,
                   posts, outcomes>>
    /\ UNCHANGED <<syncVars, pipeVars, dbVars, concVars, minioVars>>

\* Lines 140-142: the outer loop yields the next i and slices the batch.
IngestNextBatch ==
    /\ ingestPc = "outer"
    /\ RangeHas(i, Len(files), batch_size)
    /\ batch' = Slice(files, i, i + batch_size)
    /\ batches' = Append(batches, batch')
    /\ j' = 1
    /\ ingestPc' = "inner"
    /\ UNCHANGED <<files, batch_size, i, batch_results, successful, failed,
                   summary, attempted, posts, outcomes>>
    /\ UNCHANGED <<syncVars, pipeVars, dbVars, concVars, minioVars>>

\* Lines 144-197: one iteration of the inner loop.
IngestFile ==
    /\ ingestPc = "inner"
    /\ j <= Len(batch)
    /\ \E o \in Outcomes :
        LET path == batch[j]
            acc == ProcessFile([results |-> batch_results,
                                successful |-> successful,
                                failed |-> failed], path, o)
        IN  /\ batch_results' = acc.results
            /\ successful' = acc.successful
            /\ failed' = acc.failed
            /\ attempted' = Append(attempted, path)
            /\ posts' = IF Submits(o) THEN Append(posts, path) ELSE posts
            /\ outcomes' = Append(outcomes, o)
            /\ ingestPc' = IF HandlerRan(o) THEN AfterHandler ELSE "inner"
            /\ dbDocs' = IF Stored(o) THEN dbDocs + 1 ELSE dbDocs
    /\ j' = j + 1
    /\ UNCHANGED <<files, batch_size, i, batch, summary, batches>>
    /\ UNCHANGED <<syncVars, pipeVars, concVars, minioVars>>

\* The inner loop is exhausted: back to the outer loop with the next i.
IngestEndBatch ==
    /\ ingestPc = "inner"
    /\ j > Len(batch)
    /\ i' = RangeStep(i, batch_size)
    /\ ingestPc' = "outer"
    /\ UNCHANGED <<files, batch_size, batch, j, batch_results, successful,
                   failed, summary, batches, attempted, posts, outcomes>>
    /\ UNCHANGED <<syncVars, pipeVars, dbVars, concVars, minioVars>>

\* Lines 199-208: the outer loop is exhausted, the summary is written.
IngestWriteSummary ==
    /\ ingestPc = "outer"
    /\ ~RangeHas(i, Len(files), batch_size)
    /\ summary' = [written |-> TRUE,
                   total |-> Len(files),
                   successful |-> successful,
                   failed |-> failed,
                   results |-> batch_results]
    /\ ingestPc' = "done"
    /\ UNCHANGED <<files, batch_size, i, batch, j, batch_results, successful,
                   failed, batches, attempted, posts, outcomes>>
    /\ UNCHANGED <<syncVars, pipeVars, dbVars, concVars, minioVars>>

\* The Batch Ingestor alone, over every discovered-file list and batch size
\* within the documented precondition batch_size > 0.
InitIngest ==
    /\ files \in FileLists
    /\ batch_size \in 1..MaxBatch
    /\ IngestIdle
    /\ s3_prefix = <<>> /\ pages = <<>> /\ disk = {}
    /\ SyncIdle
    /\ PipeIdle

NextIngest ==
    \/ IngestBegin
    \/ IngestNextBatch
    \/ IngestFile
    \/ IngestEndBatch
    \/ IngestWriteSummary

SpecIngest == InitIngest /\ [][NextIngest]_vars

\* The stage is one sequential process whose blocking calls (read, POST with
\* timeout=300) all return or raise: a step that can be taken is taken.
FairSpecIngest == SpecIngest /\ WF_vars(NextIngest)

\* Line 140: range() raises ValueError for a step of zero, before any file
\* is processed and before the summary is written.
IngestRangeFails ==
    /\ ingestPc = "idle"
    /\ batch_size = 0
    /\ ingestPc' = "raised"
    /\ batch_results' = <<>>
    /\ successful' = 0
    /\ failed' = 0
    /\ UNCHANGED <<files, batch_size, i, batch, j, summary, batches, attempted,
                   posts, outcomes>>
    /\ UNCHANGED <<syncVars, pipeVars, dbVars, concVars, minioVars>>

\* The Batch Ingestor alone, over every integer batch size, those outside
\* the documented precondition included.
InitAnyBatch ==
    /\ files \in FileLists
    /\ batch_size \in (0 - MaxBatch)..MaxBatch
    /\ IngestIdle
    /\ s3_prefix = <<>> /\ pages = <<>> /\ disk = {}
    /\ SyncIdle
    /\ PipeIdle

NextAnyBatch ==
    \/ IngestBegin
    \/ IngestRangeFails
    \/ IngestNextBatch
    \/ IngestFile
    \/ IngestEndBatch
    \/ IngestWriteSummary

SpecAnyBatch == InitAnyBatch /\ [][NextAnyBatch]_vars

\* ---------------------- independent runs of ingest_document_batch

RunIds == {1, 2}

\* The files both runs were given.
SharedFiles == <<FilePath(1), FilePath(2)>>

\* A run of the ingestor before it has started.
RunIdle ==
    [pc |-> "idle", i |-> 0, batch |-> <<>>, j |-> 0, results |-> <<>>,
     successful |-> 0, failed |-> 0, summary |-> NoSummary,
     posts |-> <<>>, readOk |-> <<>>]

\* Lines 144-167: whether a run posts the file; what the collection has
\* already received is not consulted (no lock, no idempotency key, no
\* deduplication).
RunSubmitsDeduplicated(o, path, log) == Submits(o) /\ log[path] = 0

RunSubmits(o, path, log) == Submits(o)

\* Lines 129-137 in run r.
RunBegin(r) ==
    /\ runs[r].pc = "idle"
    /\ batch_size # 0
    /\ runs' = [runs EXCEPT ![r].pc = "outer", ![r].i = 0]
    /\ UNCHANGED <<received, ingestVars, syncVars, pipeVars, dbVars, minioVars>>

\* Lines 140-142 in run r.
RunNextBatch(r) ==
    /\ runs[r].pc = "outer"
    /\ RangeHas(runs[r].i, Len(files), batch_size)
    /\ runs' = [runs EXCEPT
                ![r].batch = Slice(files, runs[r].i, runs[r].i + batch_size),
                ![r].j = 1,
                ![r].pc = "inner"]
    /\ UNCHANGED <<received, ingestVars, syncVars, pipeVars, dbVars, minioVars>>

\* Lines 144-197 in run r.
RunFile(r) ==
    /\ runs[r].pc = "inner"
    /\ runs[r].j <= Len(runs[r].batch)
    /\ \E o \in Outcomes :
        LET st == runs[r]
            path == st.batch[st.j]
            sent == RunSubmits(o, path, received)
            acc == ProcessFile([results |-> st.results,
                                successful |-> st.successful,
                                failed |-> st.failed], path, o)
        IN  /\ runs' = [runs EXCEPT
                        ![r].results = acc.results,
                        ![r].successful = acc.successful,
                        ![r].failed = acc.failed,
                        ![r].posts = IF sent THEN Append(st.posts, path)
                                     ELSE st.posts,
                        ![r].readOk = Append(st.readOk, ~ReadRaises(o)),
                        ![r].j = st.j + 1,
                        ![r].pc = IF HandlerRan(o) THEN AfterHandler ELSE "inner"]
            /\ received' = IF sent THEN [received EXCEPT ![path] = @ + 1]
                           ELSE received
            /\ dbDocs' = IF sent /\ Stored(o) THEN dbDocs + 1 ELSE dbDocs
    /\ UNCHANGED <<ingestVars, syncVars, pipeVars, minioVars>>

\* The inner loop of run r is exhausted.
RunEndBatch(r) ==
    /\ runs[r].pc = "inner"
    /\ runs[r].j > Len(runs[r].batch)
    /\ runs' = [runs EXCEPT ![r].i = RangeStep(runs[r].i, batch_size),
                            ![r].pc = "outer"]
    /\ UNCHANGED <<received, ingestVars, syncVars, pipeVars, dbVars, minioVars>>

\* Lines 199-208 in run r.
RunWriteSummary(r) ==
    /\ runs[r].pc = "outer"
    /\ ~RangeHas(runs[r].i, Len(files), batch_size)
    /\ runs' = [runs EXCEPT
                ![r].summary = [written |-> TRUE,
                                total |-> Len(files),
                                successful |-> runs[r].successful,
                                failed |-> runs[r].failed,
                                results |-> runs[r].results],
                ![r].pc = "done"]
    /\ UNCHANGED <<received, ingestVars, syncVars, pipeVars, dbVars, minioVars>>

\* Two runs over the same files and the same collection, started
\* independently and interleaved in every way.
InitTwoRuns ==
    /\ files = SharedFiles
    /\ batch_size \in 1..2
    /\ IngestIdle
    /\ s3_prefix = <<>> /\ pages = <<>> /\ disk = {}
    /\ SyncIdle
    /\ use_s3 = FALSE /\ failFast = FALSE
    /\ discoverPc = "idle" /\ verifyPc = "idle"
    /\ file_extensions = FileExtensions
    /\ verifyReport = NoReport
    /\ dbDocs = 0
    /\ runs = [r \in RunIds |-> RunIdle]
    /\ MinioIdle
    /\ received = [f \in {SharedFiles[k] : k \in 1..Len(SharedFiles)} |-> 0]

NextTwoRuns ==
    \/ \E r \in RunIds : RunBegin(r)
    \/ \E r \in RunIds : RunNextBatch(r)
    \/ \E r \in RunIds : RunFile(r)
    \/ \E r \in RunIds : RunEndBatch(r)
    \/ \E r \in RunIds : RunWriteSummary(r)

SpecTwoRuns == InitTwoRuns /\ [][NextTwoRuns]_vars

\* ------------------------------------- test-minio-access.py

\* MaxKeys of the list_objects_v2 call of Test 4.
MaxKeys == 10

\* What a call to the store does: it returns, it raises a ClientError, or
\* it raises another exception (a connection or parameter error).
CallOutcomes == {"ok", "client_error", "error"}

MinioPrefixes == {<<>>, <<"k", "b", "/">>, <<"x">>}

\* The script at its start, for a store holding the keys at the positions of
\* bucket, listed in the pages ps.
MinioStart(bucket, prefix, ps) ==
    [pc |-> "start", bucket |-> bucket, prefix |-> prefix, pages |-> ps,
     pageIdx |-> 0, objIdx |-> 0, object_count |-> 0,
     tests |-> <<"pending", "pending", "pending", "pending">>,
     test_key |-> <<>>, printedPassed |-> FALSE,
     returned |-> FALSE, code |-> 0]

\* return 1, from a test or from the outer handler (lines 130-134).
Return1(m) == [m EXCEPT !.pc = "exited", !.returned = TRUE, !.code = 1]

\* Lines 43-54: a ClientError of list_buckets is printed and the script
\* goes on to Test 2.
AfterTest1Failure(m) == [m EXCEPT !.tests[1] = "failed", !.pc = "test2"]

\* Lines 31-41: boto3.client.
MinioCreateClient ==
    /\ minio.pc = "start"
    /\ \E o \in {"ok", "error"} :
        minio' = IF o = "ok" THEN [minio EXCEPT !.pc = "test1"]
                 ELSE Return1(minio)
    /\ UNCHANGED <<ingestVars, syncVars, pipeVars, dbVars, concVars>>

\* Lines 43-54: Test 1, list_buckets.
MinioTest1 ==
    /\ minio.pc = "test1"
    /\ \E o \in CallOutcomes :
        minio' = CASE o = "ok" -> [minio EXCEPT !.tests[1] = "ok", !.pc = "test2"]
                   [] o = "client_error" -> AfterTest1Failure(minio)
                   [] OTHER -> Return1(minio)
    /\ UNCHANGED <<ingestVars, syncVars, pipeVars, dbVars, concVars>>

\* Lines 56-65: Test 2, head_bucket.
MinioTest2 ==
    /\ minio.pc = "test2"
    /\ \E o \in CallOutcomes :
        minio' = CASE o = "ok" -> [minio EXCEPT !.tests[2] = "ok", !.pc = "test3",
                                                !.pageIdx = 0, !.object_count = 0]
                   [] o = "client_error" -> Return1([minio EXCEPT !.tests[2] = "failed"])
                   [] OTHER -> Return1(minio)
    /\ UNCHANGED <<ingestVars, syncVars, pipeVars, dbVars, concVars>>

\* Lines 72-75: the paginator yields the next page; one without Contents
\* is skipped.
MinioFetchPage ==
    /\ minio.pc = "test3"
    /\ minio.pageIdx < Len(minio.pages)
    /\ LET page == minio.pages[minio.pageIdx + 1]
       IN  minio' = [minio EXCEPT !.pageIdx = @ + 1,
                                  !.objIdx = 1,
                                  !.pc = IF page.hasContents THEN "test3objs"
                                         ELSE "test3"]
    /\ UNCHANGED <<ingestVars, syncVars, pipeVars, dbVars, concVars>>

\* Lines 72, 96-98 and 130-134: fetching the next page raises.
MinioFetchPageFails ==
    /\ minio.pc = "test3"
    /\ minio.pageIdx < Len(minio.pages)
    /\ \E o \in {"client_error", "error"} :
        minio' = IF o = "client_error"
                 THEN Return1([minio EXCEPT !.tests[3] = "failed"])
                 ELSE Return1(minio)
    /\ UNCHANGED <<ingestVars, syncVars, pipeVars, dbVars, concVars>>

\* The position after the current object of the current page.
MinioAfterObject(m) ==
    IF m.objIdx < Len(m.pages[m.pageIdx].keys)
    THEN [m EXCEPT !.objIdx = @ + 1]
    ELSE [m EXCEPT !.pc = "test3"]

\* Lines 77-80: a directory marker is not counted.
MinioSkipMarker ==
    /\ minio.pc = "test3objs"
    /\ IsMarker(minio.pages[minio.pageIdx].keys[minio.objIdx])
    /\ minio' = MinioAfterObject(minio)
    /\ UNCHANGED <<ingestVars, syncVars, pipeVars, dbVars, concVars>>

\* Lines 81-83: object_count += 1
MinioCountObject ==
    /\ minio.pc = "test3objs"
    /\ ~IsMarker(minio.pages[minio.pageIdx].keys[minio.objIdx])
    /\ minio' = MinioAfterObject([minio EXCEPT !.object_count = @ + 1])
    /\ UNCHANGED <<ingestVars, syncVars, pipeVars, dbVars, concVars>>

\* Lines 85-94: the listing is over; no object counted is a failure.
MinioTest3End ==
    /\ minio.pc = "test3"
    /\ minio.pageIdx >= Len(minio.pages)
    /\ minio' = IF minio.object_count = 0
                THEN Return1([minio EXCEPT !.tests[3] = "failed"])
                ELSE [minio EXCEPT !.tests[3] = "ok", !.pc = "test4"]
    /\ UNCHANGED <<ingestVars, syncVars, pipeVars, dbVars, concVars>>

RECURSIVE FirstNonMarker(_)
\* Lines 106-108: the first key of the response that is not a marker, or
\* the empty key when the for loop ends without a break.
FirstNonMarker(keys) ==
    IF keys = <<>> THEN <<>>
    ELSE IF ~IsMarker(Head(keys)) THEN Head(keys)
    ELSE FirstNonMarker(Tail(keys))

\* Lines 104: the Contents of list_objects_v2(Prefix=prefix, MaxKeys=10).
FirstKeys(bucket, prefix) ==
    LET keys == SelectKeys(1, bucket, prefix)
    IN  SubSeq(keys, 1, Min(MaxKeys, Len(keys)))

\* Lines 101-108 and 116-122: Test 4 lists at most MaxKeys objects and
\* picks the first that is not a marker; with none to pick nothing is
\* downloaded and the script goes on to its report.
MinioTest4List ==
    /\ minio.pc = "test4"
    /\ \E o \in CallOutcomes :
        LET key == FirstNonMarker(FirstKeys(minio.bucket, minio.prefix))
        IN  minio' = CASE o = "ok" /\ key # <<>> ->
                            [minio EXCEPT !.test_key = key, !.pc = "download"]
                       [] o = "ok" /\ key = <<>> ->
                            [minio EXCEPT !.tests[4] = "skipped", !.pc = "report"]
                       [] o = "client_error" ->
                            Return1([minio EXCEPT !.tests[4] = "failed"])
                       [] OTHER -> Return1(minio)
    /\ UNCHANGED <<ingestVars, syncVars, pipeVars, dbVars, concVars>>

\* Lines 112-115 and 120-122: get_object and read of the body.
MinioTest4Download ==
    /\ minio.pc = "download"
    /\ \E o \in CallOutcomes :
        minio' = CASE o = "ok" -> [minio EXCEPT !.tests[4] = "ok", !.pc = "report"]
                   [] o = "client_error" -> Return1([minio EXCEPT !.tests[4] = "failed"])
                   [] OTHER -> Return1(minio)
    /\ UNCHANGED <<ingestVars, syncVars, pipeVars, dbVars, concVars>>

\* Lines 124-128: "All tests passed!" and return 0.
MinioReport ==
    /\ minio.pc = "report"
    /\ minio' = [minio EXCEPT !.printedPassed = TRUE, !.pc = "exited",
                              !.returned = TRUE, !.code = 0]
    /\ UNCHANGED <<ingestVars, syncVars, pipeVars, dbVars, concVars>>

\* The script alone, over every bucket content, prefix and paging.
InitMinio ==
    /\ \E bucket \in SUBSET (1..Len(AllKeys)) : \E prefix \in MinioPrefixes :
        \E ps \in Listings(bucket, prefix) : minio = MinioStart(bucket, prefix, ps)
    /\ s3_prefix = <<>> /\ pages = <<>> /\ disk = {}
    /\ SyncIdle
    /\ files = <<>> /\ batch_size = 1
    /\ IngestIdle
    /\ ConcIdle
    /\ use_s3 = TRUE /\ failFast = FALSE
    /\ discoverPc = "idle" /\ verifyPc = "idle"
    /\ file_extensions = FileExtensions
    /\ verifyReport = NoReport
    /\ dbDocs = 0

NextMinio ==
    \/ MinioCreateClient
    \/ MinioTest1
    \/ MinioTest2
    \/ MinioFetchPage
    \/ MinioFetchPageFails
    \/ MinioSkipMarker
    \/ MinioCountObject
    \/ MinioTest3End
    \/ MinioTest4List
    \/ MinioTest4Download
    \/ MinioReport

SpecMinio == InitMinio /\ [][NextMinio]_vars

\* ------------------------------------------------------ discover_documents

\* s.endswith(suffix)
EndsWith(s, suffix) ==
    Len(suffix) <= Len(s) /\ SubSeq(s, Len(s) - Len(suffix) + 1, Len(s)) = suffix

RECURSIVE Basename(_)
\* The part of a path after its last separator.
Basename(path) ==
    IF \A k \in 1..Len(path) : path[k] # "/" THEN path
    ELSE Basename(Tail(path))

\* any(filename.endswith(ext) for ext in file_extensions)
MatchesExtension(filename) ==
    \E e \in 1..Len(file_extensions) : EndsWith(filename, file_extensions[e])

\* The files os.walk(documents_path) meets, at any depth.
UnderRoot == {f \in disk : StartsWith(f, DownloadPath \o <<"/">>)}

RECURSIVE PerExtension(_, _)
PerExtension(path, exts) ==
    IF exts = <<>> THEN <<>>
    ELSE (IF EndsWith(Basename(path), Head(exts)) THEN <<path>> ELSE <<>>)
         \o PerExtension(path, Tail(exts))

\* Lines 101-103: what one file met by the walk adds to the list.
AppendedPerExtension(path) == PerExtension(path, file_extensions)

Appended(path) == IF MatchesExtension(Basename(path)) THEN <<path>> ELSE <<>>

RECURSIVE WalkResult(_)
\* The list built over the files in the order the walk meets them.
WalkResult(walk) ==
    IF walk = <<>> THEN <<>>
    ELSE Appended(Head(walk)) \o WalkResult(Tail(walk))

\* The orders in which a walk may list a set of files.
Orderings(S) ==
    {f \in [1..Cardinality(S) -> S] : \A a, b \in 1..Cardinality(S) : f[a] = f[b] => a = b}

\* ------------------------------------------- document_ingestion_pipeline

\* The engine may still start a task.
MayStart ==
    ~(failFast /\ (syncPc = "raised" \/ ingestPc = "raised" \/ verifyPc = "raised"))

\* The tasks a task waits for: the data dependencies of lines 347-363
\* (discover_task.outputs, ingest_task.outputs); download_task and
\* discover_task are given none.
DiscoverReady == TRUE

IngestReady == discoverPc = "done"

VerifyReadyNonEmpty == ingestPc = "done" /\ summary.total > 0

VerifyReady == ingestPc = "done"

\* Lines 328-337: the download task, inside dsl.If(use_s3 == True).
PipeStartDownloadAlways ==
    /\ MayStart
    /\ SyncBegin

PipeStartDownload ==
    /\ use_s3 = TRUE
    /\ MayStart
    /\ SyncBegin

\* Lines 340-344 and 98: the discover task starts.
PipeStartDiscover ==
    /\ DiscoverReady
    /\ MayStart
    /\ discoverPc = "idle"
    /\ discoverPc' = "walking"
    /\ UNCHANGED <<use_s3, failFast, verifyPc, file_extensions, verifyReport>>
    /\ UNCHANGED <<ingestVars, syncVars, dbVars, concVars, minioVars>>

\* Lines 99-109: the walk, and the discovered files written to the artifact.
DiscoverWalk ==
    /\ discoverPc = "walking"
    /\ \E walk \in Orderings(UnderRoot) : files' = WalkResult(walk)
    /\ discoverPc' = "done"
    /\ UNCHANGED <<batch_size, ingestPc, i, batch, j, batch_results, successful,
                   failed, summary, batches, attempted, posts, outcomes>>
    /\ UNCHANGED <<use_s3, failFast, verifyPc, file_extensions, verifyReport>>
    /\ UNCHANGED <<syncVars, dbVars, concVars, minioVars>>

\* Lines 347-353: the ingest task, which consumes the discover task's output.
PipeStartIngest ==
    /\ IngestReady
    /\ MayStart
    /\ IngestBegin

\* Lines 356-364 and 229-233: the verify task, which consumes the ingest
\* task's output, loads the summary.
PipeStartVerify ==
    /\ VerifyReady
    /\ MayStart
    /\ verifyPc = "idle"
    /\ verifyPc' = "loaded"
    /\ UNCHANGED <<use_s3, failFast, discoverPc, file_extensions, verifyReport>>
    /\ UNCHANGED <<ingestVars, syncVars, dbVars, concVars, minioVars>>

\* Lines 235-270: connect, run the two queries, report.
VerifyQueries ==
    /\ verifyPc = "loaded"
    /\ verifyPc' = "done"
    /\ verifyReport' = [reported |-> TRUE,
                        successful |-> summary.successful,
                        failed |-> summary.failed,
                        total_documents |-> dbDocs]
    /\ UNCHANGED <<use_s3, failFast, discoverPc, file_extensions>>
    /\ UNCHANGED <<ingestVars, syncVars, dbVars, concVars, minioVars>>

\* Lines 236-262: the connection or a query raises.
VerifyFails ==
    /\ verifyPc = "loaded"
    /\ verifyPc' = "raised"
    /\ UNCHANGED <<use_s3, failFast, discoverPc, file_extensions, verifyReport>>
    /\ UNCHANGED <<ingestVars, syncVars, dbVars, concVars, minioVars>>

\* A file that is in the documents directory before the run.
LocalDoc == DownloadPath \o <<"/", "o", ".", "t", "x", "t">>

PipelineBuckets == {{}, {1, 2, 3}}

PipelinePrefixes == {<<"k", "b", "/">>, <<"k", "b">>}

\* One run of the pipeline: on the object store, or on a local directory.
InitPipeline ==
    /\ use_s3 \in BOOLEAN
    /\ failFast \in BOOLEAN
    /\ discoverPc = "idle" /\ verifyPc = "idle"
    /\ file_extensions = FileExtensions
    /\ verifyReport = NoReport
    /\ dbDocs \in 0..1
    /\ ConcIdle
    /\ MinioIdle
    /\ IF use_s3
       THEN /\ s3_prefix \in PipelinePrefixes
            /\ \E bucket \in PipelineBuckets : pages \in Listings(bucket, s3_prefix)
            /\ disk = {}
       ELSE /\ s3_prefix = <<>>
            /\ pages = <<NoContentsPage>>
            /\ disk \in {{}, {LocalDoc}}
    /\ SyncIdle
    /\ files = <<>>
    /\ batch_size \in 1..2
    /\ IngestIdle

NextPipeline ==
    \/ PipeStartDownload
    \/ SyncFetchPage
    \/ SyncFetchFails
    \/ SyncSkipMarker
    \/ SyncDownload
    \/ SyncDownloadFails
    \/ SyncFinish
    \/ PipeStartDiscover
    \/ DiscoverWalk
    \/ PipeStartIngest
    \/ IngestNextBatch
    \/ IngestFile
    \/ IngestEndBatch
    \/ IngestWriteSummary
    \/ PipeStartVerify
    \/ VerifyQueries
    \/ VerifyFails

Spec == InitPipeline /\ [][NextPipeline]_vars

\* The files of a documents tree: a document, a document in a
\* subdirectory, a near-miss extension, an extension in another case, a
\* document outside the root, and a file in a directory named like a document.
DocTop == DownloadPath \o <<"/", "a", ".", "m", "d">>

DocDeep == DownloadPath \o <<"/", "s", "/", "b", ".", "m", "d">>

DocNearMiss ==
    DownloadPath \o <<"/", "c", ".", "m", "a", "r", "k", "d", "o", "w", "n">>

DocUpper == DownloadPath \o <<"/", "d", ".", "M", "D">>

DocOutside == <<"/", "a", ".", "m", "d">>

DocInDir == DownloadPath \o <<"/", "x", ".", "m", "d", "/", "f">>

DiscoverFiles == {DocTop, DocDeep, DocNearMiss, DocUpper, DocOutside, DocInDir}

\* The extension lists a run may be given: none, one, two, two that both
\* match the same name, and the default.
ExtensionLists ==
    {<<>>,
     <<<<".", "m", "d">>>>,
     <<<<".", "m", "d">>, <<".", "t", "x", "t">>>>,
     <<<<".", "m", "d">>, <<"m", "d">>>>,
     FileExtensions}

\* The Discoverer alone, over every tree of these files and extension list.
InitDiscover ==
    /\ disk \in SUBSET DiscoverFiles
    /\ ConcIdle
    /\ MinioIdle
    /\ use_s3 = FALSE /\ failFast = FALSE
    /\ discoverPc = "idle" /\ verifyPc = "idle"
    /\ file_extensions \in ExtensionLists
    /\ verifyReport = NoReport
    /\ dbDocs = 0
    /\ s3_prefix = <<>> /\ pages = <<>>
    /\ SyncIdle
    /\ files = <<>> /\ batch_size = 1
    /\ IngestIdle

NextDiscover ==
    \/ PipeStartDiscover
    \/ DiscoverWalk

SpecDiscover == InitDiscover /\ [][NextDiscover]_vars

\* ------------------------------------------------ claims on the ingestor

Ceil(n, b) == (n + b - 1) \div b

RECURSIVE Concat(_)
Concat(ss) == IF ss = <<>> THEN <<>> ELSE Head(ss) \o Concat(Tail(ss))

RECURSIVE Count(_, _)
Count(s, x) ==
    IF s = <<>> THEN 0
    ELSE (IF Head(s) = x THEN 1 ELSE 0) + Count(Tail(s), x)

\* The outcome is one of the per-file failures: a read or decode error, a
\* network error or timeout, or a response whose status is not 200/201.
FailureOutcome(o) ==
    \/ o.read # "ok"
    \/ o.post # "response"
    \/ o.status \notin {200, 201}

\* C1: every Ingestion Summary written satisfies
\* successful + failed == total == len(results), whatever the per-file
\* outcomes were (batch_size > 0).
C1_SummaryCountsAgree ==
    summary.written =>
        /\ summary.successful + summary.failed = summary.total
        /\ summary.total = Len(summary.results)
        /\ summary.total = Len(files)

\* A summary over three files that saw a read error, an unparsable body of a
\* 200 response and a success.
C1_Witness ==
    /\ summary.written
    /\ summary.total = 3
    /\ summary.successful = 1
    /\ \E a, b \in 1..Len(outcomes) :
        /\ outcomes[a].read = "decode"
        /\ outcomes[b].status = 200 /\ outcomes[b].body = "nonjson"

\* C2: a per-file failure never aborts the batch or the run: the stage never
\* ends by raising, the files are attempted in list order, and when the stage
\* ends every discovered file has been attempted, those after a failed file
\* included.
C2_FailureNeverAborts ==
    /\ ingestPc \in {"idle", "outer", "inner", "done"}
    /\ Len(attempted) <= Len(files)
    /\ attempted = SubSeq(files, 1, Len(attempted))
    /\ ingestPc = "done" => attempted = files
    /\ \A k \in 1..Len(outcomes) :
        (FailureOutcome(outcomes[k]) /\ k < Len(files) /\ ingestPc = "done")
            => attempted[k + 1] = files[k + 1]

\* The first file of a batch of two gets HTTP 500 and the second file of the
\* same batch is attempted after it, as is a file of the next batch after a
\* decode error.
C2_Witness ==
    /\ ingestPc = "done"
    /\ batch_size = 2
    /\ Len(files) = 3
    /\ outcomes[1].status = 500
    /\ outcomes[2].read = "decode"
    /\ attempted = files
    /\ batch_results[3].success

\* C4: the batches are exactly ceil(N/B) contiguous, non-overlapping slices
\* of the list in list order, each of at most B files, only the last one
\* possibly shorter, together covering the list.
C4_BatchesPartitionFiles ==
    /\ \A b \in 1..Len(batches) :
        /\ batches[b] = SubSeq(files, (b - 1) * batch_size + 1,
                               Min(b * batch_size, Len(files)))
        /\ Len(batches[b]) >= 1
        /\ Len(batches[b]) <= batch_size
        /\ b < Len(batches) => Len(batches[b]) = batch_size
    /\ Len(batches) <= Ceil(Len(files), batch_size)
    /\ ingestPc = "done" =>
        /\ Len(batches) = Ceil(Len(files), batch_size)
        /\ Concat(batches) = files
        /\ Len(Concat(batches)) = Len(files)

\* Three files in batches of two: a full batch and a final short one.
C4_Witness ==
    /\ ingestPc = "done"
    /\ Len(files) = 3
    /\ batch_size = 2
    /\ Len(batches) = 2
    /\ Len(batches[2]) = 1

\* C5: the results hold exactly one Per-File Result per discovered file, in
\* discovery order.
C5_OneResultPerFileInOrder ==
    /\ Len(batch_results) <= Len(files)
    /\ \A k \in 1..Len(batch_results) : batch_results[k].file = files[k]
    /\ summary.written =>
        /\ Len(summary.results) = Len(files)
        /\ \A k \in 1..Len(files) : summary.results[k].file = files[k]

\* A summary of three results where the middle file failed with HTTP 500.
C5_Witness ==
    /\ summary.written
    /\ Len(summary.results) = 3
    /\ outcomes[2].status = 500
    /\ summary.results[1].success
    /\ ~summary.results[2].success
    /\ summary.results[3].success

\* C6: each discovered file is submitted at most once: never when its read
\* failed, exactly once when its result is a success, and never again after a
\* failed submission.
C6_AtMostOnceSubmission ==
    /\ \A k \in 1..Len(files) : Count(posts, files[k]) <= 1
    /\ \A k \in 1..Len(outcomes) :
        /\ outcomes[k].read # "ok" => Count(posts, attempted[k]) = 0
        /\ outcomes[k].read = "ok" => Count(posts, attempted[k]) = 1
        /\ batch_results[k].success => Count(posts, attempted[k]) = 1

\* A finished run in which one file's read failed, one file's POST timed out
\* and one file succeeded.
C6_Witness ==
    /\ ingestPc = "done"
    /\ Len(files) = 3
    /\ outcomes[1].read = "oserror"
    /\ outcomes[2].post = "timeout"
    /\ batch_results[3].success
    /\ posts = <<files[2], files[3]>>

\* C9: a result is a success if and only if the content was read and the
\* POST returned 200 or 201; a success carries a document_id (the response's,
\* or "unknown" when the body has none) and no error, and every other outcome
\* a failure with an error and no document_id.
C9_SuccessIffReadAnd2xx ==
    \A k \in 1..Len(batch_results) :
        LET r == batch_results[k]
            o == outcomes[k]
        IN  /\ r.success <=>
                (o.read = "ok" /\ o.post = "response" /\ o.status \in {200, 201})
            /\ r.success =>
                /\ "document_id" \in DOMAIN r
                /\ "error" \notin DOMAIN r
                /\ r.document_id =
                    (IF o.body = "id" THEN <<"id", r.file>> ELSE <<"unknown", <<>>>>)
            /\ ~r.success =>
                /\ "error" \in DOMAIN r
                /\ "document_id" \notin DOMAIN r

\* --------------------------------------------------- claims on the sync

\* The keys of all listing pages, in listing order.
RECURSIVE PageKeys(_)
PageKeys(ps) == IF ps = <<>> THEN <<>> ELSE Head(ps).keys \o PageKeys(Tail(ps))

RECURSIVE NonMarkers(_)
NonMarkers(ks) ==
    IF ks = <<>> THEN <<>>
    ELSE (IF Head(ks)[Len(Head(ks))] = "/" THEN <<>> ELSE <<Head(ks)>>)
         \o NonMarkers(Tail(ks))

DownloadedKeys == [k \in 1..Len(downloads) |-> downloads[k].key]

\* C7: a key ending in '/' is never downloaded, and when the Sync stage
\* completes without error the keys it downloaded are exactly the keys of all
\* listing pages that do not end in '/', each once, and downloaded_count is
\* their number over all pages.
C7_AllPagesDownloaded ==
    /\ \A k \in 1..Len(downloads) :
        downloads[k].key[Len(downloads[k].key)] # "/"
    /\ syncPc = "done" =>
        /\ DownloadedKeys = NonMarkers(PageKeys(pages))
        /\ \A k \in 1..Len(downloads) :
            Count(DownloadedKeys, downloads[k].key) = 1
        /\ downloaded_count = Len(NonMarkers(PageKeys(pages)))

\* A completed sync of three pages, the first without Contents, the second
\* holding a directory marker, with objects downloaded from the second and
\* the third page.
C7_Witness ==
    /\ syncPc = "done"
    /\ Len(pages) = 3
    /\ ~pages[1].hasContents
    /\ pages[2].keys = <<KeyDir, KeyDoc>>
    /\ pages[3].keys = <<KeySub>>
    /\ downloaded_count = 2

\* C8: every downloaded object is written to destination/relative_key, the
\* key with the prefix stripped from its front (the whole key for an empty
\* prefix), for every prefix, so that the file is inside the destination.
C8_LocalFileInsideDestination ==
    \A k \in 1..Len(downloads) :
        LET d == downloads[k]
            relative_key == SubSeq(d.key, Len(s3_prefix) + 1, Len(d.key))
        IN  /\ d.local_file = DownloadPath \o <<"/">> \o relative_key
            /\ StartsWith(d.local_file, DownloadPath \o <<"/">>)

\* ----------------------------------------------- claims on the pipeline

\* The stages that are running: started and not yet ended.
RunningStages ==
    {st \in {"sync", "discover", "ingest", "verify"} :
        \/ st = "sync" /\ syncPc \in {"paging", "objects"}
        \/ st = "discover" /\ discoverPc = "walking"
        \/ st = "ingest" /\ ingestPc \in {"outer", "inner"}
        \/ st = "verify" /\ verifyPc = "loaded"}

\* C3: the stages run strictly one after another: on the object store the
\* Discoverer does not start before the Sync stage has completed, the
\* Ingestor not before the Discoverer has completed, the Verifier not before
\* the Ingestor has completed, and no two stages run at the same time.
C3_StagesStrictlySequential ==
    /\ (use_s3 /\ discoverPc # "idle") => syncPc = "done"
    /\ ingestPc # "idle" => discoverPc = "done"
    /\ verifyPc # "idle" => ingestPc = "done"
    /\ Cardinality(RunningStages) <= 1

\* C10: an error of the Sync stage is fatal to the run: the stage has
\* stopped, and no later stage (Discoverer, Ingestor, Verifier) of the run
\* executes.
C10_SyncErrorFatalToRun ==
    syncPc = "raised" =>
        /\ discoverPc = "idle"
        /\ ingestPc = "idle"
        /\ verifyPc = "idle"

\* ------------------------------------------- claims on errors and bounds

\* C11: a stage that meets a fatal error leaves no partial output: a Sync
\* stage that fails after downloading some objects leaves none of the files
\* it downloaded.
C11_NoPartialOutput ==
    syncPc = "raised" =>
        \A k \in 1..Len(downloads) : downloads[k].local_file \notin disk

\* C18: for every integer batch_size the stage either fails without writing
\* a summary or writes one with total == len(results) == successful + failed.
C18_SummaryCountsAnyBatchSize ==
    /\ ingestPc = "raised" => ~summary.written
    /\ summary.written =>
        /\ summary.total = Len(summary.results)
        /\ summary.total = summary.successful + summary.failed

\* ------------------------------------------ claims on the discoverer

\* The name of the file (the part after the last separator) ends with ext.
NameEndsWith(f, ext) ==
    \E k \in 1..Len(f) :
        /\ f[k] = "/"
        /\ \A n \in (k + 1)..Len(f) : f[n] # "/"
        /\ Len(f) - k >= Len(ext)
        /\ \A n \in 1..Len(ext) : f[Len(f) - Len(ext) + n] = ext[n]

ExpectedDiscovered ==
    {f \in disk :
        /\ SubSeq(f, 1, Len(DownloadPath) + 1) = DownloadPath \o <<"/">>
        /\ \E e \in 1..Len(file_extensions) : NameEndsWith(f, file_extensions[e])}

\* C14: the Discoverer's output holds exactly the files under the root, at
\* any depth, whose name ends (case-sensitive, exact suffix) with a
\* configured extension, each exactly once even when several extensions
\* match; a near-miss extension is excluded.
C14_DiscoverExactlyMatching ==
    discoverPc = "done" =>
        /\ {files[k] : k \in 1..Len(files)} = ExpectedDiscovered
        /\ Len(files) = Cardinality(ExpectedDiscovered)
        /\ \A k \in 1..Len(files) : Count(files, files[k]) = 1
        /\ (\A e \in 1..Len(file_extensions) :
                file_extensions[e] \in {<<".", "m", "d">>, <<"m", "d">>})
            => \A k \in 1..Len(files) :
                files[k] \notin {DocNearMiss, DocUpper, DocInDir, DocOutside}

\* A tree with all six files walked with two extensions that both match the
\* two documents: each of the two is listed once, the others not.
C14_Witness ==
    /\ discoverPc = "done"
    /\ disk = DiscoverFiles
    /\ file_extensions = <<<<".", "m", "d">>, <<"m", "d">>>>
    /\ files = <<DocDeep, DocTop>>

\* ----------------------------------- claims on the pipeline, continued

ZeroSummary ==
    [written |-> TRUE, total |-> 0, successful |-> 0, failed |-> 0,
     results |-> <<>>]

\* C12: when the Discoverer finds zero files the run does not fail: the
\* Ingestor submits nothing and writes the summary {total: 0, successful: 0,
\* failed: 0, results: []}, the Verifier can start once the summary is
\* written, and what it reports is the database's current count.
C12_ZeroFilesRunCompletes ==
    (discoverPc = "done" /\ files = <<>>) =>
        /\ posts = <<>>
        /\ attempted = <<>>
        /\ ingestPc # "raised"
        /\ ingestPc = "done" => summary = ZeroSummary
        /\ (ingestPc = "done" /\ verifyPc = "idle" /\ syncPc # "raised")
            => ENABLED PipeStartVerify
        /\ verifyPc = "done" =>
            verifyReport = [reported |-> TRUE, successful |-> 0, failed |-> 0,
                            total_documents |-> dbDocs]

\* A local run over an empty directory that has ended: zero summary, and a
\* report of the one document the database held before.
C12_Witness ==
    /\ ~use_s3
    /\ disk = {}
    /\ discoverPc = "done"
    /\ summary = ZeroSummary
    /\ verifyPc = "done"
    /\ verifyReport.total_documents = 1

\* C13: with use_s3 false the Sync stage is skipped: no listing and no
\* download call is made, the disk is left as it was, and the Discoverer, the
\* Ingestor and the Verifier can each start in their turn and work on the
\* local directory.
C13_LocalRunSkipsSync ==
    ~use_s3 =>
        /\ syncPc = "idle"
        /\ pageIdx = 0
        /\ downloads = <<>>
        /\ downloaded_count = 0
        /\ ~ENABLED PipeStartDownload
        /\ disk \subseteq {LocalDoc}
        /\ \A k \in 1..Len(files) : files[k] \in disk
        /\ discoverPc = "idle" => ENABLED PipeStartDiscover
        /\ (discoverPc = "done" /\ ingestPc = "idle") => ENABLED PipeStartIngest
        /\ (ingestPc = "done" /\ verifyPc = "idle") => ENABLED PipeStartVerify

\* A local run that discovered the local document, ingested it and verified.
C13_Witness ==
    /\ ~use_s3
    /\ files = <<LocalDoc>>
    /\ summary.written
    /\ summary.successful = 1
    /\ verifyPc = "done"
    /\ verifyReport.total_documents = dbDocs
    /\ syncPc = "idle"

\* ------------------------------------------------ claims on termination

\* C15: for every finite list and batch size > 0 the Batch Ingestor
\* terminates with a summary written; the summary is written only once every
\* discovered file has a recorded result, it is written once (never changed
\* afterwards), and no per-file error is raised out of the stage.
C15_IngestorTerminates ==
    /\ <>(ingestPc = "done" /\ summary.written)
    /\ [](summary.written =>
            /\ ingestPc = "done"
            /\ Len(batch_results) = Len(files)
            /\ Len(batches) = Ceil(Len(files), batch_size))
    /\ [](ingestPc # "raised")
    /\ [][summary.written => summary' = summary]_vars

\* A terminated run over three files in batches of two in which every file
\* failed in a different way.
C15_Witness ==
    /\ ingestPc = "done"
    /\ summary.written
    /\ Len(files) = 3
    /\ batch_size = 2
    /\ summary.failed = 3
    /\ outcomes[1].read = "oserror"
    /\ outcomes[2].post = "timeout"
    /\ outcomes[3].status = 500

\* ------------------------------------------- claims on concurrent runs

\* C16: two runs over the same files and collection are not coordinated:
\* in every interleaving each run posts each file it could read exactly once
\* (and a file it could not read never), whatever the other run has done,
\* and the collection receives every one of these posts.
C16_RunsNotCoordinated ==
    /\ \A r \in RunIds : \A k \in 1..Len(runs[r].readOk) :
        Count(runs[r].posts, files[k]) = (IF runs[r].readOk[k] THEN 1 ELSE 0)
    /\ \A k \in 1..Len(files) :
        received[files[k]] =
            Count(runs[1].posts, files[k]) + Count(runs[2].posts, files[k])

\* Both runs have ended and each has a success result for the first file:
\* the same document was submitted twice to the collection.
C16_Witness ==
    /\ runs[1].pc = "done"
    /\ runs[2].pc = "done"
    /\ runs[1].summary.results[1].success
    /\ runs[2].summary.results[1].success
    /\ runs[1].summary.results[1].file = runs[2].summary.results[1].file
    /\ received[files[1]] = 2
    /\ dbDocs >= 2

\* ------------------------------------------- claims on test_minio_access

\* C17: the script returns 0 and prints "All tests passed!" only when each of
\* its four tests succeeded, and returns 1 when any one of them failed.
C17_ExitZeroOnlyIfAllPassed ==
    /\ (minio.returned /\ minio.code = 0)
         => \A t \in 1..4 : minio.tests[t] = "ok"
    /\ minio.printedPassed => \A t \in 1..4 : minio.tests[t] = "ok"
    /\ (minio.returned /\ \E t \in 1..4 : minio.tests[t] = "failed")
         => minio.code = 1

====
